---- MODULE Spec2Model ----
(***************************************************************************)
(* Propagators (prop_BT, prop_FC, prop_GAC), the ord_mrv heuristic and the *)
(* backtracking search that drives them, over CSPs assembled with the      *)
(* constraint constructors of futoshiki_csp.py (Spec); prop_GAC taken one  *)
(* round of its worklist at a time (SpecGAC); and the two model builders   *)
(* of futoshiki_csp.py applied to grids (SpecGrid).                        *)
(***************************************************************************)
EXTENDS Integers, Sequences, FiniteSets, TLC

\* ------------------------------------------------------------------ bounds
NumVars == 3
MaxEnv == 2

\* newVar=None, and a variable without an assigned value
None == 0

\* As in a Futoshiki row, n cells take the values 1..n.
MaxVal == NumVars

Vars == 1..NumVars
Vals == 1..MaxVal

VARIABLES
  csp,       \* the CSP object: original domains and the list of constraints
  curdom,    \* per variable, the values not pruned from its current domain
  asg,       \* per variable, its assigned value or None
  prop,      \* the propagator the search uses / the last call used
  ordering,  \* the variable ordering of the search: "mrv" or "any"
  pc,        \* where the search (or the caller of a propagator) stands
  stack,     \* the frames of bt_recurse, innermost last
  last,      \* the last propagator call: arguments, state before, return value
  picked,    \* the last variable returned by the variable ordering
  nEnv,      \* how many assignments and prunes a direct caller has made
  futo_grid, \* the grid handed to a model builder
  built,     \* which model builder returned csp for futo_grid (0: none)
  gac        \* a running prop_GAC: its worklist, position, prunes so far

vars == <<csp, curdom, asg, prop, ordering, pc, stack, last, picked, nEnv,
          futo_grid, built, gac>>

\* ------------------------------------------------------- Variable (cspbase)
\* A state of the variables, as the propagators see it.
State(d, a) == [dom |-> d, asg |-> a]

is_assigned(st, v) == st.asg[v] # None

ValSeq == [i \in 1..MaxVal |-> i]

\* cur_domain(): [assigned value] if assigned, else the unpruned values in
\* the order of the original domain.
cur_domain(st, v) ==
  IF is_assigned(st, v) THEN <<st.asg[v]>>
  ELSE SelectSeq(ValSeq, LAMBDA x : x \in st.dom[v])

in_cur_domain(st, v, x) ==
  IF is_assigned(st, v) THEN x = st.asg[v] ELSE x \in st.dom[v]

prune_value(st, v, x) == [st EXCEPT !.dom[v] = @ \ {x}]

restore_value(st, v, x) == [st EXCEPT !.dom[v] = @ \cup {x}]

assign(st, v, x) == [st EXCEPT !.asg[v] = x]

unassign(st, v) == [st EXCEPT !.asg[v] = None]

\* ----------------------------------------------------- Constraint (cspbase)
get_scope(c) == c.scope

check(c, vals) == vals \in c.sat

get_unasgn_vars(c, st) == SelectSeq(c.scope, LAMBDA v : ~is_assigned(st, v))

get_n_unasgn(c, st) == Len(get_unasgn_vars(c, st))

\* Some satisfying tuple has val at var's position and, at every other
\* position, a value of that variable's current domain.
has_support(c, st, var, val) ==
  \E t \in c.sat :
    \A i \in 1..Len(c.scope) :
      IF c.scope[i] = var THEN t[i] = val
      ELSE in_cur_domain(st, c.scope[i], t[i])

\* ------------------------------------------------------------ CSP (cspbase)
\* The CSP keeps the list of its variables, the list of its constraints and,
\* per variable, the list of the constraints whose scope holds it.
get_all_vars(p) == p.vars

get_all_cons(p) == p.cons

get_cons_with_var(p, v) == p.vars_to_cons[v]

\* The CSP after add_var for the variables 1..Len(d) with the domains d and
\* add_constraint for the constraints cons, in this order.
NewCSP(d, cons) ==
  [dom |-> d,
   cons |-> cons,
   vars |-> [i \in 1..Len(d) |-> i],
   vars_to_cons |->
     [v \in 1..Len(d) |->
        SelectSeq(cons, LAMBDA c : \E i \in 1..Len(c.scope) : c.scope[i] = v)]]

\* Mutant of own_list_after: the getter hands out the CSP's list itself.
own_list_after_SameList(own, handed) == handed

\* A list of the CSP after a caller changed the list a getter handed to it
\* into `handed`: the getters give listings, and the CSP's own lists stay as
\* the model builder left them.
own_list_after(own, handed) == own

\* ----------------------------------------- constraint builders (futoshiki)
\* var_setup: an empty cell gets var_domain, a given cell a singleton.
var_setup(var_domain, given) == IF given = 0 THEN var_domain ELSE {given}

ineq_constraint(d, var1, var2, greater_than) ==
  [scope |-> <<var1, var2>>,
   sat |-> {t \in d[var1] \X d[var2] :
              IF greater_than THEN t[1] > t[2] ELSE t[1] < t[2]}]

binary_constraint(d, var1, var2) ==
  [scope |-> <<var1, var2>>,
   sat |-> {t \in d[var1] \X d[var2] : t[1] # t[2]}]

\* Mutant of all_diff_constraint: a tuple is dropped only when two
\* neighbouring positions hold the same value.
all_diff_constraint_NeighboursOnly(d, vs) ==
  [scope |-> vs,
   sat |-> {t \in [1..Len(vs) -> UNION {d[vs[i]] : i \in 1..Len(vs)}] :
              /\ \A i \in 1..Len(vs) : t[i] \in d[vs[i]]
              /\ \A i \in 1..(Len(vs) - 1) : t[i] # t[i + 1]}]

all_diff_constraint(d, vs) ==
  [scope |-> vs,
   sat |-> {t \in [1..Len(vs) -> UNION {d[vs[i]] : i \in 1..Len(vs)}] :
              /\ \A i \in 1..Len(vs) : t[i] \in d[vs[i]]
              /\ \A i, j \in 1..Len(vs) : i < j => t[i] # t[j]}]

\* ------------------------------------------------- the models (futoshiki)
\* futo_grid is a list of rows; a row lists its cells (0 if empty, else the
\* given value) at the even columns and, between neighbours, a symbol at the
\* odd ones. The symbols '<', '>' and '.' are coded as negative numbers: like
\* the strings they stand for, they equal no cell entry.
Less == -1
Greater == -2
Dot == -3

\* variables[row][c] with rows and cells counted from 1: the variables are
\* numbered row by row, in the order of their add_var.
VarAt(n, row, c) == (row - 1) * n + c

\* The cell a Python index i selects among the len cells appended so far.
PyCell(len, i) == IF i < 0 THEN len + i + 1 ELSE i + 1

\* The var_setup calls of the cell loop: each variable's domain.
GridDomains(g) ==
  LET n == Len(g)
  IN [v \in 1..(n * n) |->
        var_setup(1..n, g[((v - 1) \div n) + 1][2 * ((v - 1) % n) + 1])]

\* The elif branch of the cell loop at the odd columns col, col + 2, ... of a
\* row (columns counted from 0 as in the code, so futo_grid[row][col - 1] is
\* the entry at position col).
RECURSIVE GridIneqs(_, _, _, _)
GridIneqs(g, d, row, col) ==
  IF col >= Len(g[1]) THEN <<>>
  ELSE LET sym == g[row][col]
           len == (col + 1) \div 2
           var1 == VarAt(Len(g), row, PyCell(len, (col \div 2) - 1))
           var2 == VarAt(Len(g), row, PyCell(len, col \div 2))
       IN (IF sym = Less \/ sym = Greater
           THEN <<ineq_constraint(d, var1, var2, sym = Greater)>>
           ELSE <<>>)
          \o GridIneqs(g, d, row, col + 2)

\* The cell loop over the rows row, row + 1, ...
RECURSIVE CellLoop(_, _, _)
CellLoop(g, d, row) ==
  IF row > Len(g) THEN <<>>
  ELSE GridIneqs(g, d, row, 1) \o CellLoop(g, d, row + 1)

\* Model 1's loops over i, j and k > j: a row constraint and a column
\* constraint each time.
RECURSIVE BinaryLoop(_, _, _, _, _)
BinaryLoop(n, d, i, j, k) ==
  IF i > n THEN <<>>
  ELSE IF j > n THEN BinaryLoop(n, d, i + 1, 1, 2)
  ELSE IF k > n THEN BinaryLoop(n, d, i, j + 1, j + 2)
  ELSE <<binary_constraint(d, VarAt(n, i, j), VarAt(n, i, k)),
         binary_constraint(d, VarAt(n, j, i), VarAt(n, k, i))>>
       \o BinaryLoop(n, d, i, j, k + 1)

futoshiki_csp_model_1(g) ==
  LET d == GridDomains(g)
  IN NewCSP(d, CellLoop(g, d, 1) \o BinaryLoop(Len(g), d, 1, 1, 2))

\* Model 2's loop over i: an all-different for row i and one for column i.
RECURSIVE AllDiffLoop(_, _, _)
AllDiffLoop(n, d, i) ==
  IF i > n THEN <<>>
  ELSE <<all_diff_constraint(d, [c \in 1..n |-> VarAt(n, i, c)]),
         all_diff_constraint(d, [j \in 1..n |-> VarAt(n, j, i)])>>
       \o AllDiffLoop(n, d, i + 1)

futoshiki_csp_model_2(g) ==
  LET d == GridDomains(g)
  IN NewCSP(d, CellLoop(g, d, 1) \o AllDiffLoop(Len(g), d, 1))

\* ------------------------------------------------------------- propagators
\* What a propagator returns, with the state of the variables it leaves.
Ret(ok, pruned, st) == [ok |-> ok, pruned |-> pruned, st |-> st]

\* Mutant of BTLoop: the return sits inside the loop, so only the first
\* constraint containing newVar is looked at.
BTLoop_FirstOnly(cs, st) ==
  IF cs = <<>> THEN Ret(TRUE, <<>>, st)
  ELSE LET c == Head(cs)
           vals == [i \in 1..Len(get_scope(c)) |-> st.asg[get_scope(c)[i]]]
       IN Ret(~(get_n_unasgn(c, st) = 0 /\ ~check(c, vals)), <<>>, st)

\* Mutant of BTLoop: the assigned values are collected against scope order.
RECURSIVE BTLoop_Reversed(_, _)
BTLoop_Reversed(cs, st) ==
  IF cs = <<>> THEN Ret(TRUE, <<>>, st)
  ELSE LET c == Head(cs)
           n == Len(get_scope(c))
           vals == [i \in 1..n |-> st.asg[get_scope(c)[n + 1 - i]]]
       IN IF get_n_unasgn(c, st) = 0 /\ ~check(c, vals)
          THEN Ret(FALSE, <<>>, st)
          ELSE BTLoop_Reversed(Tail(cs), st)

\* prop_BT: the loop over the constraints containing newVar.
RECURSIVE BTLoop(_, _)
BTLoop(cs, st) ==
  IF cs = <<>> THEN Ret(TRUE, <<>>, st)
  ELSE LET c == Head(cs)
           vals == [i \in 1..Len(get_scope(c)) |-> st.asg[get_scope(c)[i]]]
       IN IF get_n_unasgn(c, st) = 0 /\ ~check(c, vals)
          THEN Ret(FALSE, <<>>, st)
          ELSE BTLoop(Tail(cs), st)

prop_BT(p, st, newVar) ==
  IF newVar = None THEN Ret(TRUE, <<>>, st)
  ELSE BTLoop(get_cons_with_var(p, newVar), st)

\* Mutant of PruneLoop: the value is pruned but not appended to the list.
RECURSIVE PruneLoop_Unrecorded(_, _, _, _, _)
PruneLoop_Unrecorded(c, var, values, st, pruned) ==
  IF values = <<>> THEN [st |-> st, pruned |-> pruned]
  ELSE LET value == Head(values)
       IN IF ~has_support(c, st, var, value)
          THEN PruneLoop_Unrecorded(c, var, Tail(values),
                                    prune_value(st, var, value), pruned)
          ELSE PruneLoop_Unrecorded(c, var, Tail(values), st, pruned)

\* The loop over the values of var (a snapshot of its current domain) that
\* prop_FC and prop_GAC share: every value without support in c is pruned
\* and appended to the prune list.
RECURSIVE PruneLoop(_, _, _, _, _)
PruneLoop(c, var, values, st, pruned) ==
  IF values = <<>> THEN [st |-> st, pruned |-> pruned]
  ELSE LET value == Head(values)
       IN IF ~has_support(c, st, var, value)
          THEN PruneLoop(c, var, Tail(values),
                         prune_value(st, var, value),
                         Append(pruned, <<var, value>>))
          ELSE PruneLoop(c, var, Tail(values), st, pruned)

\* Mutant of FCScope: a wipeout returns False with an empty list, as prop_BT
\* does on a failed check.
RECURSIVE FCScope_EmptyOnWipeout(_, _, _, _)
FCScope_EmptyOnWipeout(c, scope, st, pruned) ==
  IF scope = <<>> THEN Ret(TRUE, pruned, st)
  ELSE LET var == Head(scope)
       IN IF ~is_assigned(st, var)
          THEN LET r == PruneLoop(c, var, cur_domain(st, var), st, pruned)
               IN IF Len(cur_domain(r.st, var)) = 0
                  THEN Ret(FALSE, <<>>, r.st)
                  ELSE FCScope_EmptyOnWipeout(c, Tail(scope), r.st, r.pruned)
          ELSE FCScope_EmptyOnWipeout(c, Tail(scope), st, pruned)

\* Mutant of FCScope: a domain of one value is taken for a wipeout.
RECURSIVE FCScope_OffByOne(_, _, _, _)
FCScope_OffByOne(c, scope, st, pruned) ==
  IF scope = <<>> THEN Ret(TRUE, pruned, st)
  ELSE LET var == Head(scope)
       IN IF ~is_assigned(st, var)
          THEN LET r == PruneLoop(c, var, cur_domain(st, var), st, pruned)
               IN IF Len(cur_domain(r.st, var)) <= 1
                  THEN Ret(FALSE, r.pruned, r.st)
                  ELSE FCScope_OffByOne(c, Tail(scope), r.st, r.pruned)
          ELSE FCScope_OffByOne(c, Tail(scope), st, pruned)

\* Mutant of FCScope: the assigned variables of the scope are forward-checked
\* as well.
RECURSIVE FCScope_AssignedToo(_, _, _, _)
FCScope_AssignedToo(c, scope, st, pruned) ==
  IF scope = <<>> THEN Ret(TRUE, pruned, st)
  ELSE LET var == Head(scope)
           r == PruneLoop(c, var, cur_domain(st, var), st, pruned)
       IN IF Len(cur_domain(r.st, var)) = 0
          THEN Ret(FALSE, r.pruned, r.st)
          ELSE FCScope_AssignedToo(c, Tail(scope), r.st, r.pruned)

\* prop_FC: the loop over the scope of a constraint with one unassigned
\* variable.
RECURSIVE FCScope(_, _, _, _)
FCScope(c, scope, st, pruned) ==
  IF scope = <<>> THEN Ret(TRUE, pruned, st)
  ELSE LET var == Head(scope)
       IN IF ~is_assigned(st, var)
          THEN LET r == PruneLoop(c, var, cur_domain(st, var), st, pruned)
               IN IF Len(cur_domain(r.st, var)) = 0
                  THEN Ret(FALSE, r.pruned, r.st)
                  ELSE FCScope(c, Tail(scope), r.st, r.pruned)
          ELSE FCScope(c, Tail(scope), st, pruned)

\* Mutant of FCLoop: constraints with several unassigned variables are
\* forward-checked too.
RECURSIVE FCLoop_AnyUnassigned(_, _, _)
FCLoop_AnyUnassigned(cs, st, pruned) ==
  IF cs = <<>> THEN Ret(TRUE, pruned, st)
  ELSE LET c == Head(cs)
       IN IF get_n_unasgn(c, st) >= 1
          THEN LET r == FCScope(c, get_scope(c), st, pruned)
               IN IF ~r.ok THEN r ELSE FCLoop_AnyUnassigned(Tail(cs), r.st, r.pruned)
          ELSE FCLoop_AnyUnassigned(Tail(cs), st, pruned)

\* prop_FC: the loop over the constraints.
RECURSIVE FCLoop(_, _, _)
FCLoop(cs, st, pruned) ==
  IF cs = <<>> THEN Ret(TRUE, pruned, st)
  ELSE LET c == Head(cs)
       IN IF get_n_unasgn(c, st) = 1
          THEN LET r == FCScope(c, get_scope(c), st, pruned)
               IN IF ~r.ok THEN r ELSE FCLoop(Tail(cs), r.st, r.pruned)
          ELSE FCLoop(Tail(cs), st, pruned)

prop_FC(p, st, newVar) ==
  FCLoop(IF newVar = None THEN get_all_cons(p) ELSE get_cons_with_var(p, newVar),
         st, <<>>)

\* Mutant of GACVars: nothing is appended to the queue after a prune.
RECURSIVE GACVars_NoRequeue(_, _, _, _, _, _)
GACVars_NoRequeue(p, constraint, vs, queue, st, pruned) ==
  IF vs = <<>> THEN [ok |-> TRUE, pruned |-> pruned, st |-> st, queue |-> queue]
  ELSE LET var == Head(vs)
           r == PruneLoop(constraint, var, cur_domain(st, var), st, pruned)
       IN IF Len(cur_domain(r.st, var)) = 0
          THEN [ok |-> FALSE, pruned |-> r.pruned, st |-> r.st, queue |-> queue]
          ELSE GACVars_NoRequeue(p, constraint, Tail(vs), queue, r.st, r.pruned)

\* Mutant of GACVars: the wipeout test sits after the loop over the
\* variables, so it is never reached from inside it.
RECURSIVE GACVars_NoWipeoutTest(_, _, _, _, _, _)
GACVars_NoWipeoutTest(p, constraint, vs, queue, st, pruned) ==
  IF vs = <<>> THEN [ok |-> TRUE, pruned |-> pruned, st |-> st, queue |-> queue]
  ELSE LET var == Head(vs)
           r == PruneLoop(constraint, var, cur_domain(st, var), st, pruned)
           pruned_from == Len(r.pruned) > Len(pruned)
       IN GACVars_NoWipeoutTest(p, constraint, Tail(vs),
                                IF pruned_from THEN queue \o get_cons_with_var(p, var)
                                ELSE queue,
                                r.st, r.pruned)

\* Mutant of GACVars: the constraints of every variable looked at join the
\* queue, pruned from or not.
RECURSIVE GACVars_AlwaysRequeue(_, _, _, _, _, _)
GACVars_AlwaysRequeue(p, constraint, vs, queue, st, pruned) ==
  IF vs = <<>> THEN [ok |-> TRUE, pruned |-> pruned, st |-> st, queue |-> queue]
  ELSE LET var == Head(vs)
           r == PruneLoop(constraint, var, cur_domain(st, var), st, pruned)
       IN IF Len(cur_domain(r.st, var)) = 0
          THEN [ok |-> FALSE, pruned |-> r.pruned, st |-> r.st, queue |-> queue]
          ELSE GACVars_AlwaysRequeue(p, constraint, Tail(vs),
                                     queue \o get_cons_with_var(p, var),
                                     r.st, r.pruned)

\* Mutant of GACVars: after a prune only the constraint at hand rejoins the
\* queue, not the constraints of the variable pruned from.
RECURSIVE GACVars_RequeueOwnOnly(_, _, _, _, _, _)
GACVars_RequeueOwnOnly(p, constraint, vs, queue, st, pruned) ==
  IF vs = <<>> THEN [ok |-> TRUE, pruned |-> pruned, st |-> st, queue |-> queue]
  ELSE LET var == Head(vs)
           r == PruneLoop(constraint, var, cur_domain(st, var), st, pruned)
           pruned_from == Len(r.pruned) > Len(pruned)
       IN IF Len(cur_domain(r.st, var)) = 0
          THEN [ok |-> FALSE, pruned |-> r.pruned, st |-> r.st, queue |-> queue]
          ELSE GACVars_RequeueOwnOnly(p, constraint, Tail(vs),
                                      IF pruned_from THEN Append(queue, constraint)
                                      ELSE queue,
                                      r.st, r.pruned)

\* prop_GAC: the loop over the unassigned variables of one constraint. The
\* queue grows by the constraints of every variable pruned from.
RECURSIVE GACVars(_, _, _, _, _, _)
GACVars(p, constraint, vs, queue, st, pruned) ==
  IF vs = <<>> THEN [ok |-> TRUE, pruned |-> pruned, st |-> st, queue |-> queue]
  ELSE LET var == Head(vs)
           r == PruneLoop(constraint, var, cur_domain(st, var), st, pruned)
           pruned_from == Len(r.pruned) > Len(pruned)
       IN IF Len(cur_domain(r.st, var)) = 0
          THEN [ok |-> FALSE, pruned |-> r.pruned, st |-> r.st, queue |-> queue]
          ELSE GACVars(p, constraint, Tail(vs),
                       IF pruned_from THEN queue \o get_cons_with_var(p, var)
                       ELSE queue,
                       r.st, r.pruned)

\* prop_GAC: the loop over constraint_queue, which is extended while it is
\* iterated; i is the position of the iteration. Besides what the call
\* returns, the result holds the state and the constraint_queue it leaves.
RECURSIVE GACLoop(_, _, _, _, _)
GACLoop(p, queue, i, st, pruned) ==
  IF i > Len(queue)
  THEN [ok |-> TRUE, pruned |-> pruned, st |-> st, queue |-> queue]
  ELSE LET constraint == queue[i]
           r == GACVars(p, constraint, get_unasgn_vars(constraint, st),
                        queue, st, pruned)
       IN IF ~r.ok THEN r
          ELSE GACLoop(p, r.queue, i + 1, r.st, r.pruned)

\* Mutant of prop_GAC: without a variable nothing is done, as in prop_BT.
prop_GAC_NothingWithoutVar(p, st, newVar) ==
  IF newVar = None
  THEN [ok |-> TRUE, pruned |-> <<>>, st |-> st, queue |-> <<>>]
  ELSE GACLoop(p, get_cons_with_var(p, newVar), 1, st, <<>>)

prop_GAC(p, st, newVar) ==
  GACLoop(p,
          IF newVar = None THEN get_all_cons(p) ELSE get_cons_with_var(p, newVar),
          1, st, <<>>)

\* ------------------------------------------- prop_GAC with a worklist set
\* The queue extended by those of cs that are not waiting in it, that is,
\* not among its entries after position i.
RECURSIVE AppendIfNotPending(_, _, _)
AppendIfNotPending(queue, i, cs) ==
  IF cs = <<>> THEN queue
  ELSE AppendIfNotPending(
         IF \E k \in (i + 1)..Len(queue) : queue[k] = Head(cs)
         THEN queue ELSE Append(queue, Head(cs)),
         i, Tail(cs))

\* As GACVars, the constraints of a variable pruned from joining the queue
\* only if they are not waiting in it.
RECURSIVE GACVarsDedup(_, _, _, _, _, _, _)
GACVarsDedup(p, constraint, vs, queue, i, st, pruned) ==
  IF vs = <<>> THEN [ok |-> TRUE, pruned |-> pruned, st |-> st, queue |-> queue]
  ELSE LET var == Head(vs)
           r == PruneLoop(constraint, var, cur_domain(st, var), st, pruned)
           pruned_from == Len(r.pruned) > Len(pruned)
       IN IF Len(cur_domain(r.st, var)) = 0
          THEN [ok |-> FALSE, pruned |-> r.pruned, st |-> r.st, queue |-> queue]
          ELSE GACVarsDedup(p, constraint, Tail(vs),
                            IF pruned_from
                            THEN AppendIfNotPending(queue, i, get_cons_with_var(p, var))
                            ELSE queue,
                            i, r.st, r.pruned)

RECURSIVE GACLoopDedup(_, _, _, _, _)
GACLoopDedup(p, queue, i, st, pruned) ==
  IF i > Len(queue)
  THEN [ok |-> TRUE, pruned |-> pruned, st |-> st, queue |-> queue]
  ELSE LET constraint == queue[i]
           r == GACVarsDedup(p, constraint, get_unasgn_vars(constraint, st),
                             queue, i, st, pruned)
       IN IF ~r.ok THEN r
          ELSE GACLoopDedup(p, r.queue, i + 1, r.st, r.pruned)

prop_GAC_dedup(p, st, newVar) ==
  GACLoopDedup(p,
               IF newVar = None THEN get_all_cons(p) ELSE get_cons_with_var(p, newVar),
               1, st, <<>>)

\* ---------------------------------------------------------------- ord_mrv
\* math.inf: larger than the size of any domain.
Inf == MaxVal + 2

\* Mutant of MrvLoop: <= for <, so the last variable of minimal size wins.
RECURSIVE MrvLoop_LastWins(_, _, _, _)
MrvLoop_LastWins(vs, st, dom_count, mrv) ==
  IF vs = <<>> THEN mrv
  ELSE LET var == Head(vs)
           count == Len(cur_domain(st, var))
       IN IF count <= dom_count
          THEN MrvLoop_LastWins(Tail(vs), st, count, var)
          ELSE MrvLoop_LastWins(Tail(vs), st, dom_count, mrv)

RECURSIVE MrvLoop(_, _, _, _)
MrvLoop(vs, st, dom_count, mrv) ==
  IF vs = <<>> THEN mrv
  ELSE LET var == Head(vs)
           count == Len(cur_domain(st, var))
       IN IF count < dom_count
          THEN MrvLoop(Tail(vs), st, count, var)
          ELSE MrvLoop(Tail(vs), st, dom_count, mrv)

ord_mrv(p, st) ==
  MrvLoop(get_all_vars(p), st, Inf, Head(get_all_vars(p)))

\* ------------------------------------------------- the CSP after a call
\* prop_GAC appends to the list it got from get_all_cons or from
\* get_cons_with_var(newVar) until it holds queue.
csp_after_GAC(p, newVar, queue) ==
  IF newVar = None
  THEN [p EXCEPT !.cons = own_list_after(@, queue)]
  ELSE [p EXCEPT !.vars_to_cons[newVar] = own_list_after(@, queue)]

\* prop_BT and prop_FC only iterate over the list they get.
csp_after_prop(kind, p, newVar, r) ==
  IF kind = "GAC" THEN csp_after_GAC(p, newVar, r.queue) ELSE p

\* ord_mrv pops the first entry off the list it got from get_all_vars.
csp_after_mrv(p) == [p EXCEPT !.vars = own_list_after(@, Tail(@))]

\* ------------------------------------------------------------ the CSPs
\* The rows a model builder can hand over: cells over the values 1..n, every
\* cell empty or the first cell given, any '<' / '>' / '.' between
\* neighbours, and the cells either pairwise not-equal (kind 1) or
\* all-different (kind 2).
Symbols == {".", "<", ">"}

RECURSIVE IneqCons(_, _, _)
IneqCons(d, ineqs, i) ==
  IF i >= NumVars THEN <<>>
  ELSE (IF ineqs[i] = "." THEN <<>>
        ELSE <<ineq_constraint(d, i, i + 1, ineqs[i] = ">")>>)
       \o IneqCons(d, ineqs, i + 1)

RECURSIVE NeqCons(_, _, _)
NeqCons(d, j, k) ==
  IF j >= NumVars THEN <<>>
  ELSE IF k > NumVars THEN NeqCons(d, j + 1, j + 2)
  ELSE <<binary_constraint(d, j, k)>> \o NeqCons(d, j, k + 1)

RowModel(kind, ineqs, n, given) ==
  LET d == [v \in Vars |-> var_setup(1..n, IF v = 1 THEN given ELSE 0)]
  IN NewCSP(d, IneqCons(d, ineqs, 1)
                \o (IF kind = 1 THEN NeqCons(d, 1, 2)
                    ELSE <<all_diff_constraint(d, [i \in 1..NumVars |-> i])>>))

\* (n, given): all cells empty over 1..MaxVal, or the first cell given as
\* MaxVal.
Boards == {<<MaxVal, 0>>, <<MaxVal, MaxVal>>}

NoSymbols == [i \in 1..(NumVars - 1) |-> "."]

\* The rows above, and the rows without symbols whose cells range over one
\* value too few to be different.
CSPs ==
  {RowModel(kind, ineqs, b[1], b[2]) :
     kind \in {1, 2}, ineqs \in [1..(NumVars - 1) -> Symbols], b \in Boards}
  \cup {RowModel(kind, NoSymbols, MaxVal - 1, 0) : kind \in {1, 2}}

\* The rows a direct caller works on: no cell given, one symbol throughout.
CallerCSPs == {RowModel(kind, [i \in 1..(NumVars - 1) |-> sym], MaxVal, 0) :
                 kind \in {1, 2}, sym \in {".", "<"}}

\* ------------------------------------------------------ backtracking search
\* A prop_GAC call between two constraints of its worklist: the variable it
\* was called with, the state it was called in, constraint_queue, the
\* position i of the iteration and the prunes so far.
GACCall(at, newVar, pre, queue, i, pruned) ==
  [pc |-> at, newVar |-> newVar, pre |-> pre, queue |-> queue, i |-> i,
   pruned |-> pruned]

\* No prop_GAC is running.
NoGAC == GACCall("none", None, State(<<>>, <<>>), <<>>, 1, <<>>)

Propagators == {"BT", "FC", "GAC"}

Propagate(kind, p, st, newVar) ==
  CASE kind = "BT" -> prop_BT(p, st, newVar)
    [] kind = "FC" -> prop_FC(p, st, newVar)
    [] OTHER -> prop_GAC(p, st, newVar)

RECURSIVE restoreValues(_, _)
restoreValues(st, prunings) ==
  IF prunings = <<>> THEN st
  ELSE restoreValues(restore_value(st, Head(prunings)[1], Head(prunings)[2]),
                     Tail(prunings))

Cur == State(curdom, asg)

Top == stack[Len(stack)]

Unassigned(st) == {v \in Vars : ~is_assigned(st, v)}

\* The record of a propagator call.
Call(fn, newVar, pre, r) ==
  [fn |-> fn, newVar |-> newVar, pre |-> pre, post |-> r.st,
   ok |-> r.ok, pruned |-> r.pruned]

NoCall(st) == Call("none", None, st, Ret(TRUE, <<>>, st))

\* A frame of bt_recurse: the variable, the values still to try, the prunes
\* of the value being tried, and (pre, undone) remembering the state before
\* the last tried value was assigned and whether it has been undone.
Frame(var, vals, prunings, pre, undone) ==
  [var |-> var, vals |-> vals, prunings |-> prunings, pre |-> pre,
   undone |-> undone]

\* bt_search starts from the original domains with nothing assigned.
InitSearch ==
  /\ prop \in Propagators
  /\ ordering \in {"any", "mrv"}
  /\ pc = "start"

\* A direct caller of the propagators and of ord_mrv, outside any search.
InitCaller ==
  /\ csp \in CallerCSPs
  /\ prop = "none"
  /\ ordering = "none"
  /\ pc = "idle"

Init ==
  /\ csp \in CSPs
  /\ curdom = csp.dom
  /\ asg = [v \in Vars |-> None]
  /\ InitSearch \/ InitCaller
  /\ stack = <<>>
  /\ last = NoCall(State(csp.dom, [v \in Vars |-> None]))
  /\ picked = None
  /\ nEnv = 0
  /\ futo_grid = <<>>
  /\ built = 0
  /\ gac = NoGAC

\* bt_search: the propagator runs once with no variable; its prunes are kept
\* in the bottom frame.
Start ==
  /\ pc = "start"
  /\ LET r == Propagate(prop, csp, Cur, None)
     IN /\ curdom' = r.st.dom
        /\ last' = Call(prop, None, Cur, r)
        /\ stack' = <<Frame(None, <<>>, r.pruned, Cur, FALSE)>>
        /\ pc' = IF r.ok THEN "recurse" ELSE "loop"
        /\ csp' = csp_after_prop(prop, csp, None, r)
  /\ UNCHANGED <<asg, prop, ordering, picked, nEnv>>
  /\ UNCHANGED <<futo_grid, built, gac>>

\* bt_recurse with every variable assigned: the search stops with success.
Succeed ==
  /\ pc = "recurse"
  /\ Unassigned(Cur) = {}
  /\ pc' = "success"
  /\ UNCHANGED <<csp, curdom, asg, prop, ordering, stack, last, picked, nEnv>>
  /\ UNCHANGED <<futo_grid, built, gac>>

\* bt_recurse: the ordering picks the next variable, whose current domain is
\* the list of values to try.
Pick ==
  /\ pc = "recurse"
  /\ Unassigned(Cur) # {}
  /\ \E var \in Vars :
       /\ IF ordering = "mrv" THEN var = ord_mrv(csp, Cur)
          ELSE var \in Unassigned(Cur)
       /\ picked' = var
       /\ stack' = Append(stack, Frame(var, cur_domain(Cur, var), <<>>, Cur, FALSE))
  /\ csp' = IF ordering = "mrv" THEN csp_after_mrv(csp) ELSE csp
  /\ pc' = "loop"
  /\ UNCHANGED <<curdom, asg, prop, ordering, last, nEnv>>
  /\ UNCHANGED <<futo_grid, built, gac>>

\* The next value is assigned and the propagator runs for the variable.
TryValue ==
  /\ pc = "loop"
  /\ Top.var # None
  /\ Top.vals # <<>>
  /\ ~is_assigned(Cur, Top.var)
  /\ LET var == Top.var
         st == assign(Cur, var, Head(Top.vals))
         r == Propagate(prop, csp, st, var)
     IN /\ asg' = st.asg
        /\ curdom' = r.st.dom
        /\ last' = Call(prop, var, st, r)
        /\ stack' = [stack EXCEPT ![Len(stack)] =
                       Frame(var, Tail(Top.vals), r.pruned, Cur, FALSE)]
        /\ pc' = IF r.ok THEN "recurse" ELSE "undo"
        /\ csp' = csp_after_prop(prop, csp, var, r)
  /\ UNCHANGED <<prop, ordering, picked, nEnv>>
  /\ UNCHANGED <<futo_grid, built, gac>>

\* The tried value is abandoned: its prunes are restored and the variable is
\* unassigned.
Undo ==
  /\ pc = "undo"
  /\ LET st == unassign(restoreValues(Cur, Top.prunings), Top.var)
     IN /\ curdom' = st.dom
        /\ asg' = st.asg
  /\ stack' = [stack EXCEPT ![Len(stack)] =
                 Frame(Top.var, Top.vals, <<>>, Top.pre, TRUE)]
  /\ pc' = "loop"
  /\ UNCHANGED <<csp, prop, ordering, last, picked, nEnv>>
  /\ UNCHANGED <<futo_grid, built, gac>>

\* Every value of the variable was tried: bt_recurse returns False to the
\* frame below, which abandons its own tried value.
Exhausted ==
  /\ pc = "loop"
  /\ Top.var # None
  /\ Top.vals = <<>>
  /\ stack' = SubSeq(stack, 1, Len(stack) - 1)
  /\ pc' = IF Len(stack) = 2 THEN "loop" ELSE "undo"
  /\ UNCHANGED <<csp, curdom, asg, prop, ordering, last, picked, nEnv>>
  /\ UNCHANGED <<futo_grid, built, gac>>

\* bt_search ends without a solution: the prunes of the first propagator
\* call are restored.
Fail ==
  /\ pc = "loop"
  /\ Top.var = None
  /\ curdom' = restoreValues(Cur, Top.prunings).dom
  /\ stack' = <<>>
  /\ pc' = "fail"
  /\ UNCHANGED <<csp, asg, prop, ordering, last, picked, nEnv>>
  /\ UNCHANGED <<futo_grid, built, gac>>

\* ------------------------------------------------------- direct callers
\* The caller assigns a value of the current domain to an unassigned variable.
EnvAssign ==
  /\ pc = "idle"
  /\ nEnv < MaxEnv
  /\ \E x \in Unassigned(Cur) : \E v \in curdom[x] :
       asg' = assign(Cur, x, v).asg
  /\ nEnv' = nEnv + 1
  /\ UNCHANGED <<csp, curdom, prop, ordering, pc, stack, last, picked>>
  /\ UNCHANGED <<futo_grid, built, gac>>

\* The caller prunes a value from the current domain of an unassigned variable.
EnvPrune ==
  /\ pc = "idle"
  /\ nEnv < MaxEnv
  /\ \E x \in Unassigned(Cur) : \E v \in curdom[x] :
       curdom' = prune_value(Cur, x, v).dom
  /\ nEnv' = nEnv + 1
  /\ UNCHANGED <<csp, asg, prop, ordering, pc, stack, last, picked>>
  /\ UNCHANGED <<futo_grid, built, gac>>

\* The caller runs a propagator, with no variable or with an assigned one.
CallProp ==
  /\ pc = "idle"
  /\ \E kind \in Propagators :
     \E newVar \in {None} \cup (Vars \ Unassigned(Cur)) :
       LET r == Propagate(kind, csp, Cur, newVar)
       IN /\ curdom' = r.st.dom
          /\ last' = Call(kind, newVar, Cur, r)
          /\ prop' = kind
          /\ csp' = csp_after_prop(kind, csp, newVar, r)
  /\ pc' = "called"
  /\ UNCHANGED <<asg, ordering, stack, picked, nEnv>>
  /\ UNCHANGED <<futo_grid, built, gac>>

\* The caller asks ord_mrv for a variable.
CallMrv ==
  /\ pc = "idle"
  /\ picked' = ord_mrv(csp, Cur)
  /\ csp' = csp_after_mrv(csp)
  /\ pc' = "ordered"
  /\ UNCHANGED <<curdom, asg, prop, ordering, stack, last, nEnv>>
  /\ UNCHANGED <<futo_grid, built, gac>>

\* ------------------------------------------------- prop_GAC, step by step
\* constraint_queue as prop_GAC sets it up.
InitialQueue(p, newVar) ==
  IF newVar = None THEN get_all_cons(p) ELSE get_cons_with_var(p, newVar)

\* The caller enters prop_GAC, with no variable or with an assigned one.
GACBegin ==
  /\ pc = "idle"
  /\ \E newVar \in {None} \cup (Vars \ Unassigned(Cur)) :
       gac' = GACCall("run", newVar, Cur, InitialQueue(csp, newVar), 1, <<>>)
  /\ pc' = "gac"
  /\ UNCHANGED <<csp, curdom, asg, prop, ordering, stack, last, picked, nEnv>>
  /\ UNCHANGED <<futo_grid, built>>

\* One round of the loop over constraint_queue: the unassigned variables of
\* the next constraint are pruned; a wipeout returns False.
GACStep ==
  /\ pc = "gac"
  /\ gac.i <= Len(gac.queue)
  /\ LET constraint == gac.queue[gac.i]
         r == GACVars(csp, constraint, get_unasgn_vars(constraint, Cur),
                      gac.queue, Cur, gac.pruned)
     IN /\ curdom' = r.st.dom
        /\ IF r.ok
           THEN /\ gac' = [gac EXCEPT !.queue = r.queue, !.i = @ + 1,
                                      !.pruned = r.pruned]
                /\ UNCHANGED <<csp, pc, last, prop>>
           ELSE /\ gac' = [gac EXCEPT !.pc = "done", !.pruned = r.pruned]
                /\ last' = Call("GAC", gac.newVar, gac.pre, r)
                /\ csp' = csp_after_GAC(csp, gac.newVar, r.queue)
                /\ prop' = "GAC"
                /\ pc' = "called"
  /\ UNCHANGED <<asg, ordering, stack, picked, nEnv>>
  /\ UNCHANGED <<futo_grid, built>>

\* The loop has run past the end of constraint_queue: prop_GAC returns True.
GACReturn ==
  /\ pc = "gac"
  /\ gac.i > Len(gac.queue)
  /\ gac' = [gac EXCEPT !.pc = "done"]
  /\ last' = Call("GAC", gac.newVar, gac.pre, Ret(TRUE, gac.pruned, Cur))
  /\ csp' = csp_after_GAC(csp, gac.newVar, gac.queue)
  /\ prop' = "GAC"
  /\ pc' = "called"
  /\ UNCHANGED <<curdom, asg, ordering, stack, picked, nEnv>>
  /\ UNCHANGED <<futo_grid, built>>

InitGAC ==
  /\ csp \in CallerCSPs
  /\ curdom = csp.dom
  /\ asg = [v \in Vars |-> None]
  /\ prop = "none"
  /\ ordering = "none"
  /\ pc = "idle"
  /\ stack = <<>>
  /\ last = NoCall(State(csp.dom, [v \in Vars |-> None]))
  /\ picked = None
  /\ nEnv = 0
  /\ futo_grid = <<>>
  /\ built = 0
  /\ gac = NoGAC

NextGAC == EnvAssign \/ EnvPrune \/ GACBegin \/ GACStep \/ GACReturn

\* A call that has begun keeps running: nothing but prop_GAC itself acts
\* between its entry and its return.
SpecGAC == InitGAC /\ [][NextGAC]_vars /\ WF_vars(GACStep \/ GACReturn)

Next ==
  \/ Start \/ Succeed \/ Pick \/ TryValue \/ Undo \/ Exhausted \/ Fail
  \/ EnvAssign \/ EnvPrune \/ CallProp \/ CallMrv

Spec == Init /\ [][Next]_vars

\* ------------------------------------------------------- model building
\* The grids handed to the model builders: n rows of n empty cells with '.'
\* between them, for n in GridSizes, with at most one cell given and at most
\* one '<' or '>' written.
GridSizes == 1..3

EmptyGrid(n) ==
  [row \in 1..n |-> [col \in 1..(2 * n - 1) |-> IF col % 2 = 1 THEN 0 ELSE Dot]]

WithGiven(n) ==
  {EmptyGrid(n)} \cup
  {[EmptyGrid(n) EXCEPT ![row][2 * c - 1] = x] :
     row \in 1..n, c \in 1..n, x \in 1..n}

WithSymbol(n, g) ==
  {g} \cup {[g EXCEPT ![row][2 * c] = sym] :
             row \in 1..n, c \in 1..(n - 1), sym \in {Less, Greater}}

Grids == UNION {UNION {WithSymbol(n, g) : g \in WithGiven(n)} : n \in GridSizes}

InitGrid ==
  /\ futo_grid \in Grids
  /\ csp = NewCSP(<<>>, <<>>)
  /\ curdom = <<>>
  /\ asg = <<>>
  /\ prop = "none"
  /\ ordering = "none"
  /\ pc = "grid"
  /\ stack = <<>>
  /\ last = NoCall(State(<<>>, <<>>))
  /\ picked = None
  /\ nEnv = 0
  /\ built = 0
  /\ gac = NoGAC

\* csp, var_array = futoshiki_csp_model_1(board)
BuildModel1 ==
  /\ pc = "grid"
  /\ csp' = futoshiki_csp_model_1(futo_grid)
  /\ curdom' = csp'.dom
  /\ asg' = [v \in DOMAIN csp'.dom |-> None]
  /\ built' = 1
  /\ pc' = "built"
  /\ UNCHANGED <<prop, ordering, stack, last, picked, nEnv, futo_grid, gac>>

\* csp, var_array = futoshiki_csp_model_2(board)
BuildModel2 ==
  /\ pc = "grid"
  /\ csp' = futoshiki_csp_model_2(futo_grid)
  /\ curdom' = csp'.dom
  /\ asg' = [v \in DOMAIN csp'.dom |-> None]
  /\ built' = 2
  /\ pc' = "built"
  /\ UNCHANGED <<prop, ordering, stack, last, picked, nEnv, futo_grid, gac>>

NextGrid == BuildModel1 \/ BuildModel2

SpecGrid == InitGrid /\ [][NextGrid]_vars

\* ------------------------------------------------------------ properties
\* The (Variable, Value) pairs present in the domains of pre and absent from
\* those of post.
Removed(pre, post) ==
  {pr \in Vars \X Vals : pr[2] \in pre.dom[pr[1]] /\ pr[2] \notin post.dom[pr[1]]}

PairSet(seq) == {seq[i] : i \in 1..Len(seq)}

NoDup(seq) == \A i, j \in 1..Len(seq) : i < j => seq[i] # seq[j]

\* C1: the list prop_FC / prop_GAC return holds exactly the pairs the call
\* removed from the current domains, each once, whether it returns True or
\* False and with or without a newly assigned variable.
C1_ExactPruneList ==
  last.fn \in {"FC", "GAC"} =>
    /\ PairSet(last.pruned) = Removed(last.pre, last.post)
    /\ NoDup(last.pruned)
    /\ \A v \in Vars : last.post.dom[v] \subseteq last.pre.dom[v]
    /\ last.post.asg = last.pre.asg

C1_Witness ==
  /\ last.fn = "GAC"
  /\ ~last.ok
  /\ last.newVar # None
  /\ Len(last.pruned) >= 2

\* C2: when a tried value has been abandoned (its prunes restored, the
\* variable unassigned), every current domain and every assignment is what it
\* was immediately before the value was assigned, at every depth.
C2_RestorationExact ==
  (pc = "loop" /\ stack # <<>> /\ Top.undone) => Cur = Top.pre

C2_Witness ==
  /\ pc = "loop"
  /\ Len(stack) >= 3
  /\ Top.undone
  /\ last.newVar = Top.var
  /\ ~last.ok
  /\ Len(last.pruned) >= 1

\* The values assigned to the scope of c, in scope order.
AssignedTuple(c, st) == [i \in 1..Len(c.scope) |-> st.asg[c.scope[i]]]

\* C3: in the success state every constraint of the CSP is satisfied by the
\* assigned values of its scope.
C3_SuccessSatisfies ==
  pc = "success" =>
    /\ \A v \in Vars : is_assigned(Cur, v)
    /\ \A i \in 1..Len(csp.cons) : check(csp.cons[i], AssignedTuple(csp.cons[i], Cur))

C3_Witness ==
  /\ pc = "success"
  /\ prop = "BT"
  /\ Len(csp.cons) > NumVars

\* s is a total assignment from the original domains satisfying every
\* constraint.
IsSolution(p, s) ==
  /\ \A v \in DOMAIN p.dom : s[v] \in p.dom[v]
  /\ \A i \in 1..Len(p.cons) :
       [k \in 1..Len(p.cons[i].scope) |-> s[p.cons[i].scope[k]]] \in p.cons[i].sat

\* s agrees with the assignments of st and lies in its current domains.
Extends(s, st) == \A v \in Vars : in_cur_domain(st, v, s[v]) /\ s[v] \in st.dom[v]

\* C4: with an ordering that returns unassigned variables the search fails
\* only if the CSP has no solution, and no propagator call of the search
\* signals a dead end or prunes a value of a solution its branch extends to.
C4_FailureOnlyIfUnsolvable ==
  ordering = "any" =>
    /\ pc = "fail" => \A s \in [Vars -> Vals] : ~IsSolution(csp, s)
    /\ (last.fn # "none" /\ Cur = last.post /\ (~last.ok \/ last.pruned # <<>>)) =>
         \A s \in [Vars -> Vals] :
           (Extends(s, last.pre) /\ IsSolution(csp, s)) =>
             (last.ok /\ Extends(s, last.post))

C4_Witness ==
  /\ ordering = "any"
  /\ pc = "fail"
  /\ prop = "GAC"
  /\ last.newVar # None

\* The constraints whose scope contains v.
ConsOf(p, v) == PairSet(get_cons_with_var(p, v))

\* Every value of every unassigned variable has support in every constraint
\* containing the variable.
GACConsistent(p, st) ==
  \A V \in Unassigned(st) : \A v \in st.dom[V] : \A C \in ConsOf(p, V) :
    has_support(C, st, V, v)

\* C5: after prop_GAC returns True, on a call with no variable from any
\* state or on any call of a search that runs prop_GAC, every value left in
\* the domain of an unassigned variable has support in every constraint
\* containing that variable.
C5_GACFixpoint ==
  (last.fn = "GAC" /\ last.ok /\ (last.newVar = None \/ ordering # "none")) =>
    GACConsistent(csp, last.post)

C5_Witness ==
  /\ last.fn = "GAC"
  /\ last.ok
  /\ last.newVar # None
  /\ ordering # "none"
  /\ \E i, j \in 1..Len(last.pruned) : last.pruned[i][1] # last.pruned[j][1]

\* The constraints prop_FC / prop_GAC start from in the last call.
Examined == 
  PairSet(IF last.newVar = None THEN get_all_cons(csp)
          ELSE get_cons_with_var(csp, last.newVar))

\* W is the only unassigned variable of C, and v has no support in C.
SoleUnsupported(C, W, v) ==
  /\ get_n_unasgn(C, last.pre) = 1
  /\ get_unasgn_vars(C, last.pre) = <<W>>
  /\ ~has_support(C, last.pre, W, v)

\* C6 as stated: prop_FC removes v from W if and only if W is the only
\* unassigned variable of an examined constraint in which v has no support.
C6_FCRemovesIff ==
  last.fn = "FC" =>
    \A W \in Vars : \A v \in last.pre.dom[W] :
      (v \notin last.post.dom[W]) <=> (\E C \in Examined : SoleUnsupported(C, W, v))

\* C6 as amended: every value prop_FC removes is a value of the only
\* unassigned variable of an examined constraint without support in it, all
\* other domains are unchanged, and on a True return every such value is
\* removed.
C6_FCRemovesOnlyIf ==
  last.fn = "FC" =>
    \A W \in Vars : \A v \in last.pre.dom[W] :
      /\ (v \notin last.post.dom[W]) => (\E C \in Examined : SoleUnsupported(C, W, v))
      /\ last.ok =>
           ((\E C \in Examined : SoleUnsupported(C, W, v)) => v \notin last.post.dom[W])

C6_Witness ==
  /\ last.fn = "FC"
  /\ ~last.ok
  /\ last.newVar # None
  /\ \E W \in Vars : \E v \in last.post.dom[W] : \E C \in Examined :
       SoleUnsupported(C, W, v)

\* C7: prop_BT prunes nothing and changes no domain; with no variable it
\* returns True; with variable X it returns False exactly when a constraint
\* containing X has no unassigned variable and its check fails on the
\* assigned values in scope order.
C7_BTChecksOnly ==
  last.fn = "BT" =>
    /\ last.pruned = <<>>
    /\ last.post = last.pre
    /\ last.newVar = None => last.ok
    /\ last.newVar # None =>
         (~last.ok <=>
            \E C \in ConsOf(csp, last.newVar) :
              /\ get_n_unasgn(C, last.pre) = 0
              /\ ~check(C, AssignedTuple(C, last.pre)))

C7_Witness ==
  /\ last.fn = "BT"
  /\ ~last.ok
  /\ \E C \in ConsOf(csp, last.newVar) :
       get_n_unasgn(C, last.pre) = 0 /\ check(C, AssignedTuple(C, last.pre))

\* The domains after the first k prunes of the last call.
RECURSIVE DomAfter(_)
DomAfter(k) ==
  IF k = 0 THEN last.pre.dom
  ELSE [DomAfter(k - 1) EXCEPT ![last.pruned[k][1]] = @ \ {last.pruned[k][2]}]

\* The constraints the last call worked on if it ran to the end: for prop_FC
\* the examined constraints with one unassigned variable, for prop_GAC the
\* examined constraints and those containing a variable it pruned from.
Processed ==
  IF last.fn = "FC" THEN {C \in Examined : get_n_unasgn(C, last.pre) = 1}
  ELSE Examined \cup
       UNION {ConsOf(csp, last.pruned[i][1]) : i \in 1..Len(last.pruned)}

\* The unassigned variables in the scope of those constraints.
ProcessedVars ==
  {W \in Unassigned(last.pre) :
     \E C \in Processed : \E i \in 1..Len(C.scope) : C.scope[i] = W}

\* C8: prop_FC and prop_GAC return False exactly when an unassigned variable
\* they examined is left with an empty current domain, nothing is pruned
\* after the first wipeout, and on True no unassigned variable of a
\* constraint they processed has an empty current domain.
C8_FalseIffWipeout ==
  last.fn \in {"FC", "GAC"} =>
    /\ ~last.ok <=> (\E W \in ProcessedVars : last.post.dom[W] = {})
    /\ \A k \in 1..(Len(last.pruned) - 1) : DomAfter(k)[last.pruned[k][1]] # {}

C8_Witness ==
  /\ last.fn = "GAC"
  /\ ~last.ok
  /\ Len(last.pruned) >= 3
  /\ \E W \in Vars : last.post.dom[W] = {} /\ last.pre.dom[W] # {}
  /\ \E W \in Unassigned(last.pre) : \E v \in last.post.dom[W] :
       \E C \in ConsOf(csp, W) : ~has_support(C, last.post, W, v)

\* C9 as stated: in a search driven by ord_mrv, the variable picked while
\* some variable is unassigned is an unassigned variable.
C9_MrvPicksUnassigned ==
  (ordering = "mrv" /\ pc = "recurse" /\ Unassigned(Cur) # {}) =>
    ord_mrv(csp, Cur) \in Unassigned(Cur)

\* v has the smallest current-domain size of st, and is the first variable
\* of that size.
FirstSmallest(st, v) ==
  \A u \in Vars :
    /\ Len(cur_domain(st, v)) <= Len(cur_domain(st, u))
    /\ Len(cur_domain(st, u)) = Len(cur_domain(st, v)) => v <= u

\* C10: ord_mrv returns a variable of minimal current-domain size, the first
\* of that size in the enumeration order of the CSP.
C10_MrvFirstSmallest ==
  /\ pc = "ordered" => FirstSmallest(Cur, picked)
  /\ (ordering = "mrv" /\ pc = "loop" /\ Top.var # None /\ ~Top.undone
        /\ Top.vals = cur_domain(Top.pre, Top.var)) =>
       FirstSmallest(Top.pre, Top.var)

C10_Witness ==
  /\ pc = "ordered"
  /\ Unassigned(Cur) = Vars
  /\ picked = 2
  /\ Len(cur_domain(Cur, 1)) > Len(cur_domain(Cur, 2))
  /\ Len(cur_domain(Cur, 3)) = Len(cur_domain(Cur, 2))

\* ------------------------------------------------ properties of the models
\* The total assignments of values 1..n to the cells of an n x n grid.
Assignments(n) == [1..(n * n) -> 1..n]

\* Those satisfying every constraint of the CSP p.
Solutions(p, n) == {s \in Assignments(n) : IsSolution(p, s)}

\* The values of every row and of every column are pairwise distinct.
IsLatinSquare(n, s) ==
  \A i, j, k \in 1..n :
    j < k => /\ s[VarAt(n, i, j)] # s[VarAt(n, i, k)]
             /\ s[VarAt(n, j, i)] # s[VarAt(n, k, i)]

LatinSquares(n) == {s \in Assignments(n) : IsLatinSquare(n, s)}

\* Every given cell keeps its value.
KeepsGivens(g, s) ==
  \A row, c \in 1..Len(g) :
    g[row][2 * c - 1] # 0 => s[VarAt(Len(g), row, c)] = g[row][2 * c - 1]

\* Every '<' and '>' holds between the cells left and right of it.
HoldsSymbols(g, s) ==
  \A row \in 1..Len(g) : \A c \in 1..(Len(g) - 1) :
    LET left == s[VarAt(Len(g), row, c)]
        right == s[VarAt(Len(g), row, c + 1)]
    IN /\ g[row][2 * c] = Less => left < right
       /\ g[row][2 * c] = Greater => left > right

\* C11: every total assignment satisfying all constraints of the CSP that
\* futoshiki_csp_model_1 or futoshiki_csp_model_2 built for a grid solves
\* the puzzle: rows and columns pairwise distinct, given cells kept, every
\* written '<' and '>' true of its two neighbours.
C11_ModelSolutionsSolvePuzzle ==
  built # 0 =>
    \A s \in Assignments(Len(futo_grid)) :
      IsSolution(csp, s) =>
        /\ IsLatinSquare(Len(futo_grid), s)
        /\ KeepsGivens(futo_grid, s)
        /\ HoldsSymbols(futo_grid, s)

\* C12: for the grid of n x n empty cells without inequalities, n up to 3,
\* the solutions of the CSP of model 1 are exactly the n x n Latin squares,
\* there is one, and the CSP of model 2 has the same solutions.
C12_EmptyGridLatinSquares ==
  (built # 0 /\ futo_grid = EmptyGrid(Len(futo_grid))) =>
    /\ Solutions(csp, Len(futo_grid)) = LatinSquares(Len(futo_grid))
    /\ LatinSquares(Len(futo_grid)) # {}
    /\ Solutions(futoshiki_csp_model_1(futo_grid), Len(futo_grid))
         = Solutions(futoshiki_csp_model_2(futo_grid), Len(futo_grid))

C12_Witness ==
  /\ built = 2
  /\ Len(futo_grid) = 3
  /\ futo_grid = EmptyGrid(3)
  /\ Cardinality(Solutions(csp, 3)) = 12

\* ------------------------------------------- properties of the propagators
\* b prunes at least what a prunes: a dead end of a is one of b, and when b
\* returns True its pruned pairs include those of a, so that the domains it
\* leaves lie within those a leaves.
AtLeastAsStrong(a, b) ==
  /\ ~a.ok => ~b.ok
  /\ b.ok => /\ PairSet(a.pruned) \subseteq PairSet(b.pruned)
             /\ \A v \in Vars : b.st.dom[v] \subseteq a.st.dom[v]

\* The return value and the state left by the recorded call.
LastRet == Ret(last.ok, last.pruned, last.post)

\* C13: from the state and with the variable of any propagator call, prop_BT
\* prunes nothing, a False of prop_FC is a False of prop_GAC, and a True of
\* prop_GAC comes with every pair prop_FC prunes, the domains it leaves
\* lying within those prop_FC leaves.
C13_StrengthOrdering ==
  /\ last.fn = "BT" =>
       /\ last.pruned = <<>>
       /\ last.post = last.pre
  /\ last.fn = "FC" =>
       AtLeastAsStrong(LastRet, prop_GAC(csp, last.pre, last.newVar))
  /\ last.fn = "GAC" =>
       AtLeastAsStrong(prop_FC(csp, last.pre, last.newVar), LastRet)

\* prop_FC pruned and returned True where prop_GAC, pruning more, returns
\* True as well.
C13_Witness ==
  /\ last.fn = "FC"
  /\ last.ok
  /\ last.pruned # <<>>
  /\ LET g == prop_GAC(csp, last.pre, last.newVar)
     IN g.ok /\ Len(g.pruned) > Len(last.pruned)

\* C16: in every state of a backtracking search each current domain lies
\* within the original domain and each assigned value is in the current
\* domain of its variable; no propagator call prunes a value from a variable
\* that is assigned, or changes an assignment.
C16_DomainsAndAssignments ==
  /\ ordering \in {"any", "mrv"} =>
       \A v \in Vars :
         /\ curdom[v] \subseteq csp.dom[v]
         /\ is_assigned(Cur, v) => asg[v] \in curdom[v] /\ asg[v] \in csp.dom[v]
  /\ last.fn \in Propagators =>
       /\ last.post.asg = last.pre.asg
       /\ \A i \in 1..Len(last.pruned) : ~is_assigned(last.pre, last.pruned[i][1])
       /\ \A v \in Vars :
            is_assigned(last.pre, v) => last.post.dom[v] = last.pre.dom[v]

\* A search in depth: a variable is assigned and the propagator, called
\* for a second assigned variable, has pruned from the third.
C16_Witness ==
  /\ ordering = "any"
  /\ pc = "recurse"
  /\ Cardinality(Vars \ Unassigned(Cur)) >= 2
  /\ last.fn \in {"FC", "GAC"}
  /\ last.pruned # <<>>
  /\ \E v \in Unassigned(Cur) : curdom[v] # csp.dom[v]

\* C17: prop_GAC with a worklist that never holds a constraint already
\* waiting in it returns, from the state and with the variable of any call,
\* what the prop_GAC of the source returns, and on True leaves the same
\* current domains.
C17_DedupSameResult ==
  last.fn = "GAC" =>
    LET d == prop_GAC_dedup(csp, last.pre, last.newVar)
    IN /\ d.ok = last.ok
       /\ last.ok => d.st.dom = last.post.dom

\* The source's worklist grew longer than the deduplicated one, and both
\* calls pruned and returned True.
C17_Witness ==
  /\ last.fn = "GAC"
  /\ last.ok
  /\ last.pruned # <<>>
  /\ Len(prop_GAC(csp, last.pre, last.newVar).queue)
       > Len(prop_GAC_dedup(csp, last.pre, last.newVar).queue)

\* ------------------------------------------------- properties of a GAC run
\* The values a call can prune: those of the current domains it started from.
PrunableValues(st) == {pr \in Vars \X Vals : pr[2] \in st.dom[pr[1]]}

\* The rounds a call can make: one for each constraint it starts with and,
\* for each value it can prune, one for each constraint of the CSP.
RoundBound(p, pre, newVar) ==
  Len(InitialQueue(p, newVar)) + Cardinality(PrunableValues(pre)) * Len(p.cons)

\* C14: prop_GAC terminates from any state. The worklist grows only after a
\* prune, by at most the constraints of the CSP each time, and no value is
\* pruned twice, so the worklist never grows beyond a length fixed when the
\* call starts; every round moves the iteration one position on or ends the
\* call at a wipeout, and the call returns once the position is past the
\* end of the worklist.
C14_GACTerminates ==
  /\ [](gac.pc = "run" =>
         /\ gac.i <= Len(gac.queue) + 1
         /\ Len(gac.queue) <= Len(InitialQueue(csp, gac.newVar))
                                + Len(gac.pruned) * Len(csp.cons)
         /\ PairSet(gac.pruned) \subseteq PrunableValues(gac.pre)
         /\ NoDup(gac.pruned)
         /\ Len(gac.queue) <= RoundBound(csp, gac.pre, gac.newVar))
  /\ [][gac.pc = "run" =>
          \/ gac'.pc = "done" /\ pc' = "called"
          \/ gac'.pc = "run" /\ gac'.i = gac.i + 1 /\ gac.i <= Len(gac.queue)]_gac

\* A call has returned True after its worklist grew beyond the constraints
\* it started with.
C14_Witness ==
  /\ gac.pc = "done"
  /\ last.ok
  /\ gac.i = Len(gac.queue) + 1
  /\ Len(gac.queue) > Len(InitialQueue(csp, gac.newVar))

\* ------------------------------------------------ properties of the CSP
\* The list of variables holds every variable once, and the list kept for
\* a variable holds the constraints with the variable in their scope, as
\* often and in the order in which the list of constraints holds them.
ListsConsistent(p) ==
  /\ p.vars = [i \in 1..Len(p.dom) |-> i]
  /\ \A v \in 1..Len(p.dom) :
       p.vars_to_cons[v] =
         SelectSeq(p.cons, LAMBDA c : \E i \in 1..Len(c.scope) : c.scope[i] = v)

====
